---- MODULE Spec2Model ----
(***************************************************************************)
(* shut.tasks.core: the task graph (TaskGraph, TaskGroup, Task), its       *)
(* ordering and selection algorithms and the execution state machine.      *)
(*                                                                         *)
(* Python objects are named by strings ("T1", "G1", "X"); a dict is a      *)
(* function whose DOMAIN is its key set; None is the string "None".        *)
(* An operation that raises is an action that records the exception class  *)
(* in last.res, together with whatever the code mutated before raising.    *)
(***************************************************************************)
EXTENDS Naturals, Sequences, FiniteSets, TLC

None == "None"

\* ------------------------------------------------------------- universe
\* Every Task object a caller may construct, Task(name).
AllTasks == {"T1", "T2", "T3", "T4", "T5", "T6", "T7"}

\* Every TaskGroup object a caller may construct, TaskGroup(name).
AllGroups == {"G1", "G2", "G3", "G4", "G5", "G6"}

\* The TaskGraph instances: X = TaskGraph(on_event), Y = TaskGraph().
AllGraphs == {"X", "Y"}

\* _NamedObject._name, fixed at construction. T4 is named like T1, G3 like G1,
\* G4 like T1, and T5 carries the separator in its name. T6 and T7 are
\* TestCheckTask('test'), G5 and G6 TaskGroup('checks') (shut.plugins.checks).
Name(o) ==
  CASE o = "T1" -> "a"
    [] o = "T2" -> "b"
    [] o = "T3" -> "c"
    [] o = "T4" -> "a"
    [] o = "T5" -> "g:a"
    [] o = "G1" -> "g"
    [] o = "G2" -> "h"
    [] o = "G3" -> "g"
    [] o = "G4" -> "a"
    [] o = "T6" -> "test"
    [] o = "T7" -> "test"
    [] o = "G5" -> "checks"
    [] o = "G6" -> "checks"

\* TaskGraph._event_listener: X was constructed with a sink, Y without.
HasListener(x) == x = "X"

\* An identifier no task or group has.
Unknown == "zz"

\* The releases of networkx a build can have: topological_sort of 2.0 to 2.5
\* pops the zero-indegree nodes from the end of a list, that of 2.6 and later
\* yields them generation by generation. core.py asks for no release.
Releases == {"pop", "generations"}

\* ------------------------------------------------------------- bounds
\* Most edges a graph's DiGraph holds, where ordering is studied.
MaxEdges == 3

\* Most edges a graph's DiGraph holds, where registration or execution is studied.
FewEdges == 1
MaxChecks == 4
MaxRelease == 2
MaxTuple == 2

\* ------------------------------------------------------------- dicts
EmptyDict == [k \in {} |-> None]

Put(d, k, v) == [x \in (DOMAIN d) \cup {k} |-> IF x = k THEN v ELSE d[x]]

Values(d) == {d[k] : k \in DOMAIN d}

SeqSet(s) == {s[i] : i \in 1..Len(s)}

\* The elements of sequence s that are in set S, in the order of s.
RECURSIVE Filter(_, _)
Filter(s, S) ==
  IF s = <<>> THEN <<>>
  ELSE IF Head(s) \in S THEN <<Head(s)>> \o Filter(Tail(s), S)
  ELSE Filter(Tail(s), S)

\* Every order in which the elements of S can be listed.
RECURSIVE Orders(_)
Orders(S) ==
  IF S = {} THEN {<<>>} ELSE UNION {{<<e>> \o p : p \in Orders(S \ {e})} : e \in S}

\* One order of the elements of S, where the result does not depend on it.
RECURSIVE SomeOrder(_)
SomeOrder(S) ==
  IF S = {} THEN <<>> ELSE LET e == CHOOSE e \in S : TRUE IN <<e>> \o SomeOrder(S \ {e})

\* ------------------------------------------------------------- state
VARIABLES
  univ,       \* the objects the caller has constructed (fixed through a run)
  graphRef,   \* _NamedObject._graph of every task and group (a graph or None)
  parentRef,  \* _NamedObject._parent of every task and group (a group or None)
  status,     \* Task._status
  error,      \* Task._error
  invoked,    \* how often each task's _execute_internal has been entered
  grpGroups,  \* TaskGroup._groups: name -> group, per group
  grpTasks,   \* TaskGroup._tasks: name -> task, per group
  regGroups,  \* TaskGraph._groups: id -> group, per graph
  regTasks,   \* TaskGraph._tasks: id -> task, per graph
  digraph,    \* TaskGraph._graph (nx.DiGraph): nodes and adjacency in insertion order
  events,     \* what the event sink has received, in order
  loop,       \* the caller's loop over ordered_tasks(...): its state, the list, the position
  customData, \* TaskGraph.custom_data, per graph
  last        \* the call that ended last: operation, graph, argument, outcome, result

vars == <<univ, graphRef, parentRef, status, error, invoked, grpGroups, grpTasks,
          regGroups, regTasks, digraph, events, loop, customData, last>>

structure == <<graphRef, parentRef, grpGroups, grpTasks, regGroups, regTasks, digraph>>

execution == <<status, error, invoked, events>>

\* The mark of a group object that has been deallocated.
Freed == "Freed"

Tasks == univ.tasks
\* The group objects that exist: a deallocated one can be passed to no call.
Groups == {g \in univ.groups : graphRef[g] # Freed}
Graphs == univ.graphs

Call(op, graph, arg, res, ret) ==
  [op |-> op, graph |-> graph, arg |-> arg, res |-> res, ret |-> ret]

\* ------------------------------------------------------------- identity
\* IdOf prefixing the parent's name instead of the parent's id.
IdOfParentName(par, o) ==
  IF par[o] # None THEN Name(par[o]) \o ":" \o Name(o) ELSE Name(o)

\* _NamedObject.id over a parent map: the name, or parent.id + ':' + name.
RECURSIVE IdOf(_, _)
IdOf(par, o) ==
  IF par[o] # None THEN IdOf(par, par[o]) \o ":" \o Name(o) ELSE Name(o)

Id(o) == IdOf(parentRef, o)

\* TaskGroup.__contains__: key in self._groups or key in self._tasks.
GroupContains(p, key) == key \in DOMAIN grpGroups[p] \/ key \in DOMAIN grpTasks[p]

\* ------------------------------------------------------------- nx.DiGraph
EmptyDiGraph == [nodes |-> <<>>, adj |-> EmptyDict]

\* nx.DiGraph.add_node: a new node goes last, a known one stays in place.
AddNode(G, n) ==
  IF n \in SeqSet(G.nodes) THEN G
  ELSE [nodes |-> Append(G.nodes, n), adj |-> Put(G.adj, n, <<>>)]

\* nx.DiGraph.add_edge: v goes last among u's successors unless it is one.
AddEdge(G, u, v) ==
  LET H == AddNode(AddNode(G, u), v)
  IN IF v \in SeqSet(H.adj[u]) THEN H
     ELSE [H EXCEPT !.adj = [@ EXCEPT ![u] = Append(@, v)]]

EdgeSet(G) == {e \in SeqSet(G.nodes) \X SeqSet(G.nodes) : e[2] \in SeqSet(G.adj[e[1]])}

\* The characters of a name.
Letters(name) ==
  CASE name = "g:a" -> {"g", ":", "a"}
    [] name = "zz" -> {"z"}
    [] name = "test" -> {"t", "e", "s"}
    [] name = "checks" -> {"c", "h", "e", "k", "s"}
    [] OTHER -> {name}

\* The characters of the identifier of object o.
RECURSIVE IdLetters(_)
IdLetters(o) ==
  Letters(Name(o)) \cup (IF parentRef[o] # None THEN {":"} \cup IdLetters(parentRef[o]) ELSE {})

\* nx.Graph.nbunch_iter(n): n itself if it is a node; otherwise n is iterated
\* as a container of nodes (a str yields its characters) and the members that
\* are nodes are kept.
NbunchIter(G, n) ==
  IF n \in SeqSet(G.nodes) THEN {n}
  ELSE UNION {IdLetters(o) : o \in {q \in Tasks \cup Groups : Id(q) = n}} \cap SeqSet(G.nodes)

\* nx.DiGraph.in_edges(n): the sources of the edges into the nodes of nbunch n.
InEdges(G, n) == {u \in SeqSet(G.nodes) : \E m \in NbunchIter(G, n) : m \in SeqSet(G.adj[u])}

\* ------------------------------------------------------------- construction
Start ==
  /\ graphRef = [o \in AllTasks \cup AllGroups |-> None]
  /\ parentRef = [o \in AllTasks \cup AllGroups |-> None]
  /\ status = [t \in AllTasks |-> "PENDING"]
  /\ error = [t \in AllTasks |-> None]
  /\ invoked = [t \in AllTasks |-> 0]
  /\ grpGroups = [g \in AllGroups |-> EmptyDict]
  /\ grpTasks = [g \in AllGroups |-> EmptyDict]
  /\ regGroups = [x \in AllGraphs |-> EmptyDict]
  /\ regTasks = [x \in AllGraphs |-> EmptyDict]
  /\ digraph = [x \in AllGraphs |-> EmptyDiGraph]
  /\ events = <<>>
  /\ loop = [state |-> "idle", plan |-> <<>>, pos |-> 0]
  /\ customData = [x \in AllGraphs |-> EmptyDict]
  /\ last = Call("init", None, None, "ok", None)

\* ------------------------------------------------------------- TaskGraph.add_group
\* TaskGraph.add_group(group) on graph x; par is the parent map at the call
\* (TaskGroup.add_group sets group._parent just before it).
GraphAddGroupBody(op, x, g, par) ==
  IF graphRef[g] # None
  THEN /\ last' = Call(op, x, None, "AssertionError", None)
       /\ UNCHANGED <<graphRef, regGroups>>
  ELSE /\ regGroups' = [regGroups EXCEPT ![x] = Put(@, IdOf(par, g), g)]
       /\ graphRef' = [graphRef EXCEPT ![g] = x]
       /\ last' = Call(op, x, None, "ok", None)

GraphAddGroup(x, g) ==
  /\ GraphAddGroupBody("TaskGraph.add_group", x, g, parentRef)
  /\ UNCHANGED <<univ, parentRef, grpGroups, grpTasks, regTasks, digraph>>
  /\ UNCHANGED execution

\* ------------------------------------------------------------- TaskGroup.add_group
GroupAddGroupBody(op, p, g) ==
  IF graphRef[p] = None
  THEN /\ last' = Call(op, None, None, "RuntimeError", None)
       /\ UNCHANGED structure
  ELSE IF graphRef[g] # None
  THEN /\ last' = Call(op, graphRef[p], None, "RuntimeError", None)
       /\ UNCHANGED structure
  ELSE IF GroupContains(p, Name(g))
  THEN /\ last' = Call(op, graphRef[p], None, "ValueError", None)
       /\ UNCHANGED structure
  ELSE /\ grpGroups' = [grpGroups EXCEPT ![p] = Put(@, Name(g), g)]
       /\ parentRef' = [parentRef EXCEPT ![g] = p]
       /\ GraphAddGroupBody(op, graphRef[p], g, parentRef')
       /\ UNCHANGED <<grpTasks, regTasks, digraph>>

GroupAddGroup(p, g) ==
  /\ GroupAddGroupBody("TaskGroup.add_group", p, g)
  /\ UNCHANGED univ
  /\ UNCHANGED execution

\* ------------------------------------------------------------- TaskGraph.create_group
\* A group object no call has touched yet: what TaskGroup(name) returns.
Fresh(g) ==
  /\ graphRef[g] = None
  /\ parentRef[g] = None
  /\ grpGroups[g] = EmptyDict
  /\ grpTasks[g] = EmptyDict

CreateGroup(x, g, parent) ==
  /\ Fresh(g)
  /\ IF parent # None
     THEN IF graphRef[parent] # x
          THEN /\ last' = Call("create_group", x, None, "AssertionError", None)
               /\ UNCHANGED structure
          ELSE GroupAddGroupBody("create_group", parent, g)
     ELSE /\ GraphAddGroupBody("create_group", x, g, parentRef)
          /\ UNCHANGED <<parentRef, grpGroups, grpTasks, regTasks, digraph>>
  /\ UNCHANGED univ
  /\ UNCHANGED execution

\* ------------------------------------------------------------- TaskGraph.add_task
\* GraphAddTaskBody registering the task without a node for it in the DiGraph.
GraphAddTaskBodyNoNode(op, x, t, par) ==
  IF graphRef[t] # None
  THEN /\ last' = Call(op, x, None, "AssertionError", None)
       /\ UNCHANGED <<graphRef, regTasks, digraph>>
  ELSE IF IdOf(par, t) \in DOMAIN regTasks[x]
  THEN /\ last' = Call(op, x, None, "RuntimeError", None)
       /\ UNCHANGED <<graphRef, regTasks, digraph>>
  ELSE /\ graphRef' = [graphRef EXCEPT ![t] = x]
       /\ regTasks' = [regTasks EXCEPT ![x] = Put(@, IdOf(par, t), t)]
       /\ digraph' = digraph
       /\ last' = Call(op, x, None, "ok", None)

GraphAddTaskBody(op, x, t, par) ==
  IF graphRef[t] # None
  THEN /\ last' = Call(op, x, None, "AssertionError", None)
       /\ UNCHANGED <<graphRef, regTasks, digraph>>
  ELSE IF IdOf(par, t) \in DOMAIN regTasks[x]
  THEN /\ last' = Call(op, x, None, "RuntimeError", None)
       /\ UNCHANGED <<graphRef, regTasks, digraph>>
  ELSE /\ graphRef' = [graphRef EXCEPT ![t] = x]
       /\ regTasks' = [regTasks EXCEPT ![x] = Put(@, IdOf(par, t), t)]
       /\ digraph' = [digraph EXCEPT ![x] = AddNode(@, IdOf(par, t))]
       /\ last' = Call(op, x, None, "ok", None)

GraphAddTask(x, t) ==
  /\ GraphAddTaskBody("TaskGraph.add_task", x, t, parentRef)
  /\ UNCHANGED <<univ, parentRef, grpGroups, grpTasks, regGroups>>
  /\ UNCHANGED execution

\* ------------------------------------------------------------- TaskGroup.add_task
\* GroupAddTask storing the task before it looks at the group's graph.
GroupAddTaskLateCheck(p, t) ==
  /\ IF graphRef[p] = None
     THEN /\ grpTasks' = [grpTasks EXCEPT ![p] = Put(@, Name(t), t)]
          /\ parentRef' = [parentRef EXCEPT ![t] = p]
          /\ last' = Call("TaskGroup.add_task", None, None, "RuntimeError", None)
          /\ UNCHANGED <<graphRef, grpGroups, regGroups, regTasks, digraph>>
     ELSE IF graphRef[t] # None
     THEN /\ last' = Call("TaskGroup.add_task", graphRef[p], None, "RuntimeError", None)
          /\ UNCHANGED structure
     ELSE IF GroupContains(p, Name(t))
     THEN /\ last' = Call("TaskGroup.add_task", graphRef[p], None, "ValueError", None)
          /\ UNCHANGED structure
     ELSE /\ grpTasks' = [grpTasks EXCEPT ![p] = Put(@, Name(t), t)]
          /\ parentRef' = [parentRef EXCEPT ![t] = p]
          /\ GraphAddTaskBody("TaskGroup.add_task", graphRef[p], t, parentRef')
          /\ UNCHANGED <<grpGroups, regGroups>>
  /\ UNCHANGED univ
  /\ UNCHANGED execution

GroupAddTask(p, t) ==
  /\ IF graphRef[p] = None
     THEN /\ last' = Call("TaskGroup.add_task", None, None, "RuntimeError", None)
          /\ UNCHANGED structure
     ELSE IF graphRef[t] # None
     THEN /\ last' = Call("TaskGroup.add_task", graphRef[p], None, "RuntimeError", None)
          /\ UNCHANGED structure
     ELSE IF GroupContains(p, Name(t))
     THEN /\ last' = Call("TaskGroup.add_task", graphRef[p], None, "ValueError", None)
          /\ UNCHANGED structure
     ELSE /\ grpTasks' = [grpTasks EXCEPT ![p] = Put(@, Name(t), t)]
          /\ parentRef' = [parentRef EXCEPT ![t] = p]
          /\ GraphAddTaskBody("TaskGroup.add_task", graphRef[p], t, parentRef')
          /\ UNCHANGED <<grpGroups, regGroups>>
  /\ UNCHANGED univ
  /\ UNCHANGED execution

\* ------------------------------------------------------------- Task.depends_on
\* TaskGraph._add_edge(a, b) on graph x for each a of the list ds, in order;
\* the first failing assertion ends the loop.
RECURSIVE AddEdges(_, _, _, _)
AddEdges(G, x, ds, b) ==
  IF ds = <<>> THEN [g |-> G, res |-> "ok"]
  ELSE IF Id(Head(ds)) \notin DOMAIN regTasks[x] \/ Id(b) \notin DOMAIN regTasks[x]
  THEN [g |-> G, res |-> "AssertionError"]
  ELSE AddEdges(AddEdge(G, Id(Head(ds)), Id(b)), x, Tail(ds), b)

\* depends_on(task) and depends_on([task, task]).
DepLists == {<<d>> : d \in Tasks} \cup {<<d, e>> : d \in Tasks, e \in Tasks}

DependsOn(t, ds) ==
  /\ IF graphRef[t] = None
     THEN /\ last' = Call("depends_on", None, None, "AttributeError", None)
          /\ UNCHANGED digraph
     ELSE LET x == graphRef[t]
              r == AddEdges(digraph[x], x, ds, t)
          IN /\ Cardinality(EdgeSet(r.g)) <= univ.maxEdges
             /\ digraph' = [digraph EXCEPT ![x] = r.g]
             /\ last' = Call("depends_on", x, None, r.res, None)
  /\ UNCHANGED <<univ, graphRef, parentRef, grpGroups, grpTasks, regGroups, regTasks>>
  /\ UNCHANGED execution

\* ------------------------------------------------------------- weak references
\* The objects that hold group g strongly: the registry of a graph
\* (TaskGraph._groups) and the child map of its parent (TaskGroup._groups);
\* _parent and _graph are weakref.ref.
StronglyHeld(g) ==
  \/ \E x \in Graphs : g \in Values(regGroups[x])
  \/ \E p \in Groups : g \in Values(grpGroups[p])

\* The caller drops its last reference to an attached group that nothing else
\* holds: the object is deallocated and every weak reference to it reads None.
Collect(g) ==
  /\ graphRef[g] # None
  /\ ~StronglyHeld(g)
  /\ graphRef' = [graphRef EXCEPT ![g] = Freed]
  /\ parentRef' = [o \in DOMAIN parentRef |-> IF parentRef[o] = g THEN None ELSE parentRef[o]]
  /\ last' = Call("del", None, None, "ok", None)
  /\ UNCHANGED <<univ, grpGroups, grpTasks, regGroups, regTasks, digraph>>
  /\ UNCHANGED execution

\* ------------------------------------------------------------- TaskGraph.select
\* What select puts in its result set: Task objects and, for the sub-groups
\* of a selected group, their identifier strings.
TaskItem(t) == [kind |-> "Task", v |-> t]
StrItem(s) == [kind |-> "str", v |-> s]

\* SelectLoop passing over a name that is in neither registry.
RECURSIVE SelectLoopSkipping(_, _, _)
SelectLoopSkipping(x, value, tasks) ==
  IF value = <<>> THEN [res |-> "ok", ret |-> tasks]
  ELSE LET name == Head(value)
       IN IF name \in DOMAIN regGroups[x]
          THEN LET item == regGroups[x][name]
               IN SelectLoopSkipping(x, Tail(value),
                    tasks \cup {TaskItem(t) : t \in Values(grpTasks[item])}
                          \cup {StrItem(Id(g)) : g \in Values(grpGroups[item])})
          ELSE IF name \in DOMAIN regTasks[x]
          THEN SelectLoopSkipping(x, Tail(value), tasks \cup {TaskItem(regTasks[x][name])})
          ELSE SelectLoopSkipping(x, Tail(value), tasks)

\* select(value) on graph x, value a list of names (a single string is made
\* a one-element list first): [res, ret].
RECURSIVE SelectLoop(_, _, _)
SelectLoop(x, value, tasks) ==
  IF value = <<>> THEN [res |-> "ok", ret |-> tasks]
  ELSE LET name == Head(value)
       IN IF name \in DOMAIN regGroups[x]
          THEN LET item == regGroups[x][name]
               IN SelectLoop(x, Tail(value),
                    tasks \cup {TaskItem(t) : t \in Values(grpTasks[item])}
                          \cup {StrItem(Id(g)) : g \in Values(grpGroups[item])})
          ELSE IF name \in DOMAIN regTasks[x]
          THEN SelectLoop(x, Tail(value), tasks \cup {TaskItem(regTasks[x][name])})
          ELSE [res |-> "KeyError", ret |-> None]

SelectResult(x, value) == SelectLoop(x, value, {})

\* The names a caller passes: every registered identifier and an unknown one.
Names(x) == (DOMAIN regTasks[x]) \cup (DOMAIN regGroups[x]) \cup {Unknown}

\* select(name) or select([name]), and select([name, other]) for every two names.
SelLists(x) ==
  {<<i>> : i \in Names(x)} \cup {SomeOrder(p) : p \in {q \in SUBSET Names(x) : Cardinality(q) = 2}}

Select(x, value) ==
  /\ LET r == SelectResult(x, value)
     IN last' = Call("select", x, value, r.res, r.ret)
  /\ UNCHANGED univ
  /\ UNCHANGED structure
  /\ UNCHANGED execution

\* ------------------------------------------------------------- TaskGraph.ordered_tasks
\* An acyclic graph of n nodes has fewer than n * 2^n backward walks: a walk
\* that pops more often is on a cycle, and the loop never ends.
WalkFuel(G) == Len(G.nodes) * (2 ^ Len(G.nodes))

\* The loop of lines 324-327: pop a task id, add it to nodes, push the sources
\* of its in-edges. No id is ever skipped because it was seen before.
RECURSIVE Walk(_, _, _, _)
Walk(G, stack, nodes, fuel) ==
  IF stack = <<>> THEN [res |-> "ok", nodes |-> nodes]
  ELSE IF fuel = 0 THEN [res |-> "diverges", nodes |-> nodes]
  ELSE Walk(G, Tail(stack) \o SomeOrder(InEdges(G, Head(stack))),
            nodes \cup {Head(stack)}, fuel - 1)

\* nx.topological_sort over the nodes in sequence `order` with successor lists
\* adj: generation by generation, the nodes whose in-degree has dropped to 0.
Relax(r, c) ==
  LET d == r.indeg[c] - 1
  IN [indeg |-> [r.indeg EXCEPT ![c] = d],
      zero |-> IF d = 0 THEN Append(r.zero, c) ELSE r.zero]

RECURSIVE RelaxAll(_, _)
RelaxAll(r, children) ==
  IF children = <<>> THEN r ELSE RelaxAll(Relax(r, Head(children)), Tail(children))

RECURSIVE Generation(_, _, _)
Generation(adj, gen, r) ==
  IF gen = <<>> THEN r ELSE Generation(adj, Tail(gen), RelaxAll(r, adj[Head(gen)]))

\* Generations with each generation put in front of the earlier ones.
RECURSIVE GenerationsReversed(_, _, _, _)
GenerationsReversed(adj, zero, indeg, out) ==
  IF zero = <<>>
  THEN IF \E n \in DOMAIN indeg : indeg[n] > 0
       THEN [res |-> "NetworkXUnfeasible", ret |-> None]
       ELSE [res |-> "ok", ret |-> out]
  ELSE LET r == Generation(adj, zero, [indeg |-> indeg, zero |-> <<>>])
       IN GenerationsReversed(adj, r.zero, r.indeg, zero \o out)

RECURSIVE Generations(_, _, _, _)
Generations(adj, zero, indeg, out) ==
  IF zero = <<>>
  THEN IF \E n \in DOMAIN indeg : indeg[n] > 0
       THEN [res |-> "NetworkXUnfeasible", ret |-> None]
       ELSE [res |-> "ok", ret |-> out]
  ELSE LET r == Generation(adj, zero, [indeg |-> indeg, zero |-> <<>>])
       IN Generations(adj, r.zero, r.indeg, out \o zero)

\* topological_sort of networkx 2.0 to 2.5: the node popped from the end of
\* the list zero_indegree is yielded next; a child whose in-degree drops to 0
\* is appended to the list.
RECURSIVE PopLoop(_, _, _, _)
PopLoop(adj, zero, indeg, out) ==
  IF zero = <<>>
  THEN IF \E n \in DOMAIN indeg : indeg[n] > 0
       THEN [res |-> "NetworkXUnfeasible", ret |-> None]
       ELSE [res |-> "ok", ret |-> out]
  ELSE LET node == zero[Len(zero)]
           r == RelaxAll([indeg |-> indeg, zero |-> SubSeq(zero, 1, Len(zero) - 1)], adj[node])
       IN PopLoop(adj, r.zero, r.indeg, Append(out, node))

TopologicalSort(order, adj) ==
  LET N == SeqSet(order)
      indeg == [n \in N |-> Cardinality({u \in N : n \in SeqSet(adj[u])})]
      zero == SelectSeq(order, LAMBDA n : indeg[n] = 0)
  IN IF univ.nx = "pop" THEN PopLoop(adj, zero, indeg, <<>>)
     ELSE Generations(adj, zero, indeg, <<>>)

\* nx.DiGraph.subgraph(nodes): a view that lists the nodes, and each node's
\* successors, in the graph's order, or in the iteration order of the set
\* `nodes` when that set is less than half as long as what it filters.
SubOrder(base, N, setOrder) ==
  IF 2 * Cardinality(N) < Len(base) THEN Filter(setOrder, SeqSet(base)) ELSE Filter(base, N)

SubgraphSort(G, N, setOrder) ==
  TopologicalSort(SubOrder(G.nodes, N, setOrder),
                  [n \in N |-> SubOrder(G.adj[n], N, setOrder)])

\* The iteration orders of the set `nodes` that the view can show.
SetOrders(G, N) ==
  IF \/ 2 * Cardinality(N) < Len(G.nodes)
     \/ \E n \in N : 2 * Cardinality(N) < Len(G.adj[n])
  THEN Orders(N) ELSE {SomeOrder(N)}

\* [self._tasks[t_id] for t_id in ...] (line 333).
Lookup(x, r) ==
  IF r.res = "ok" THEN [res |-> "ok", ret |-> [i \in DOMAIN r.ret |-> regTasks[x][r.ret[i]]]]
  ELSE r

\* ordered_tasks() on graph x: every outcome the call can have.
OrderedAllResults(x) == {Lookup(x, TopologicalSort(digraph[x].nodes, digraph[x].adj))}

\* ordered_tasks(select) on graph x: every outcome the call can have.
OrderedSelectedResults(x, value) ==
  LET s == SelectResult(x, value)
      G == digraph[x]
  IN IF s.res # "ok" THEN {s}
     ELSE IF \E i \in s.ret : i.kind = "str" THEN {[res |-> "AttributeError", ret |-> None]}
     ELSE LET w == Walk(G, SomeOrder({Id(i.v) : i \in s.ret}), {}, WalkFuel(G))
          IN IF w.res # "ok" THEN {[res |-> w.res, ret |-> None]}
             ELSE LET N == w.nodes \cap SeqSet(G.nodes)   \* subgraph() keeps the nodes of G
                  IN {Lookup(x, SubgraphSort(G, N, o)) : o \in SetOrders(G, N)}

OrderedAll(x) ==
  /\ \E r \in OrderedAllResults(x) : last' = Call("ordered_tasks()", x, None, r.res, r.ret)
  /\ UNCHANGED univ
  /\ UNCHANGED structure
  /\ UNCHANGED execution

\* OrderedSelected cutting the DiGraph itself down to the tasks it returns,
\* where the code takes a view of it.
OrderedSelectedPruning(x, value) ==
  /\ \E r \in OrderedSelectedResults(x, value) :
        /\ last' = Call("ordered_tasks(select)", x, value, r.res, r.ret)
        /\ IF r.res = "ok"
           THEN LET G == digraph[x]
                    N == {k \in SeqSet(G.nodes) \cap DOMAIN regTasks[x] :
                            regTasks[x][k] \in SeqSet(r.ret)}
                IN digraph' = [digraph EXCEPT ![x] =
                                 [nodes |-> SelectSeq(G.nodes, LAMBDA n : n \in N),
                                  adj |-> [n \in N |-> SelectSeq(G.adj[n], LAMBDA m : m \in N)]]]
           ELSE digraph' = digraph
  /\ UNCHANGED univ
  /\ UNCHANGED <<graphRef, parentRef, grpGroups, grpTasks, regGroups, regTasks>>
  /\ UNCHANGED execution

OrderedSelected(x, value) ==
  /\ \E r \in OrderedSelectedResults(x, value) :
        last' = Call("ordered_tasks(select)", x, value, r.res, r.ret)
  /\ UNCHANGED univ
  /\ UNCHANGED structure
  /\ UNCHANGED execution

\* ------------------------------------------------------------- Task.execute
\* TaskGraph.trigger_event: the sink, if there is one, receives the event; the
\* payload is the task, whose status the sink sees as it is at that moment.
\* TriggerEvent handing the sink the newest event first.
TriggerEventNewestFirst(log, x, name, t, st) ==
  IF HasListener(x) THEN <<[name |-> name, task |-> t, status |-> st]>> \o log ELSE log

TriggerEvent(log, x, name, t, st) ==
  IF HasListener(x) THEN Append(log, [name |-> name, task |-> t, status |-> st]) ELSE log

\* The status the action's outcome leads to (lines 127-132).
Outcomes == {"return", "skip", "raise"}

\* StatusAfter without the except Skip clause: Skip falls to except BaseException.
StatusAfterNoSkip(outcome) ==
  CASE outcome = "return" -> "SUCCESS"
    [] outcome = "skip" -> "ERROR"
    [] outcome = "raise" -> "ERROR"

StatusAfter(outcome) ==
  CASE outcome = "return" -> "SUCCESS"
    [] outcome = "skip" -> "SKIPPED"
    [] outcome = "raise" -> "ERROR"

\* NotPending refusing also a task one of whose dependencies ended in ERROR.
NotPendingOrDependencyFailed(t) ==
  \/ status[t] # "PENDING"
  \/ \E d \in Tasks :
        /\ status[d] = "ERROR"
        /\ graphRef[d] # None /\ graphRef[d] = graphRef[t]
        /\ <<Id(d), Id(t)>> \in EdgeSet(digraph[graphRef[t]])

\* NotPending refusing only a task that is running.
NotPendingOnlyRunning(t) == status[t] = "RUNNING"

\* The guard of Task.execute (line 121): the status is not PENDING.
NotPending(t) == status[t] # "PENDING"

\* Execute marking the Pending dependants of a task that failed as SKIPPED.
ExecuteSkippingDependants(t, outcome, beginRaises, endRaises) ==
  /\ IF NotPending(t)
     THEN /\ last' = Call("execute", graphRef[t], t, "RuntimeError", None)
          /\ UNCHANGED execution
     ELSE IF graphRef[t] = None
     THEN \* self.graph is None: trigger_event is looked up on None
          /\ status' = [status EXCEPT ![t] = "RUNNING"]
          /\ last' = Call("execute", None, t, "AttributeError", None)
          /\ UNCHANGED <<error, invoked, events>>
     ELSE IF HasListener(graphRef[t]) /\ beginRaises
     THEN /\ status' = [status EXCEPT ![t] = "RUNNING"]
          /\ events' = TriggerEvent(events, graphRef[t], "task.begin", t, "RUNNING")
          /\ last' = Call("execute", graphRef[t], t, "SinkError", None)
          /\ UNCHANGED <<error, invoked>>
     ELSE LET x == graphRef[t]
              st == StatusAfter(outcome)
          IN /\ invoked' = [invoked EXCEPT ![t] = @ + 1]
             /\ status' = [u \in AllTasks |->
                             IF u = t THEN st
                             ELSE IF /\ st = "ERROR" /\ status[u] = "PENDING" /\ graphRef[u] = x
                                     /\ <<Id(t), Id(u)>> \in EdgeSet(digraph[x])
                             THEN "SKIPPED"
                             ELSE status[u]]
             \* line 133 reads sys, which the module never imports: the
             \* handler raises NameError before self._error is assigned
             /\ error' = error
             /\ events' = TriggerEvent(TriggerEvent(events, x, "task.begin", t, "RUNNING"),
                                       x, "task.end", t, st)
             /\ last' = Call("execute", x, t,
                             IF HasListener(x) /\ endRaises THEN "SinkError"
                             ELSE IF outcome = "raise" THEN "NameError" ELSE "ok",
                             outcome)
  /\ UNCHANGED univ
  /\ UNCHANGED structure

\* execute() on task t whose action ends in `outcome`; beginRaises / endRaises:
\* whether the sink raises when it receives task.begin / task.end.
Execute(t, outcome, beginRaises, endRaises) ==
  /\ IF NotPending(t)
     THEN /\ last' = Call("execute", graphRef[t], t, "RuntimeError", None)
          /\ UNCHANGED execution
     ELSE IF graphRef[t] = None
     THEN \* self.graph is None: trigger_event is looked up on None
          /\ status' = [status EXCEPT ![t] = "RUNNING"]
          /\ last' = Call("execute", None, t, "AttributeError", None)
          /\ UNCHANGED <<error, invoked, events>>
     ELSE IF HasListener(graphRef[t]) /\ beginRaises
     THEN /\ status' = [status EXCEPT ![t] = "RUNNING"]
          /\ events' = TriggerEvent(events, graphRef[t], "task.begin", t, "RUNNING")
          /\ last' = Call("execute", graphRef[t], t, "SinkError", None)
          /\ UNCHANGED <<error, invoked>>
     ELSE LET x == graphRef[t]
              st == StatusAfter(outcome)
          IN /\ invoked' = [invoked EXCEPT ![t] = @ + 1]
             /\ status' = [status EXCEPT ![t] = st]
             \* line 133 reads sys, which the module never imports: the
             \* handler raises NameError before self._error is assigned
             /\ error' = error
             /\ events' = TriggerEvent(TriggerEvent(events, x, "task.begin", t, "RUNNING"),
                                       x, "task.end", t, st)
             /\ last' = Call("execute", x, t,
                             IF HasListener(x) /\ endRaises THEN "SinkError"
                             ELSE IF outcome = "raise" THEN "NameError" ELSE "ok",
                             outcome)
  /\ UNCHANGED univ
  /\ UNCHANGED structure

\* ------------------------------------------------------------- shut.plugins.apply
\* The plugin modules: shut.plugins.checks, whose register_plugin creates the
\* root group 'checks' and adds TestCheckTask('test') to it.
Plugins == {"shut.plugins.checks"}

\* A task object no call has touched yet: what TestCheckTask(name) returns.
FreshTask(t) == graphRef[t] = None /\ parentRef[t] = None /\ status[t] = "PENDING"

\* apply(graph, plugin_module) on graph x; g and t are the objects that
\* register_plugin constructs. setdefault stores an empty set under
\* 'applied_plugins'; nothing adds plugin_module to it.
Apply(x, m, g, t) ==
  LET applied == IF "applied_plugins" \in DOMAIN customData[x]
                 THEN customData[x]["applied_plugins"] ELSE {}
  IN /\ Fresh(g) /\ Name(g) = "checks"
     /\ FreshTask(t) /\ Name(t) = "test"
     /\ customData' = [customData EXCEPT ![x] = Put(@, "applied_plugins", applied)]
     /\ IF m \in applied
        THEN /\ last' = Call("apply", x, None, "ok", None)
             /\ UNCHANGED structure
        ELSE \* graph.create_group('checks'), then checks_group.add_task(t)
             /\ regGroups' = [regGroups EXCEPT ![x] = Put(@, Name(g), g)]
             /\ grpTasks' = [grpTasks EXCEPT ![g] = Put(@, Name(t), t)]
             /\ parentRef' = [parentRef EXCEPT ![t] = g]
             /\ IF IdOf(parentRef', t) \in DOMAIN regTasks[x]
                THEN /\ graphRef' = [graphRef EXCEPT ![g] = x]
                     /\ last' = Call("apply", x, None, "RuntimeError", None)
                     /\ UNCHANGED <<regTasks, digraph>>
                ELSE /\ graphRef' = [graphRef EXCEPT ![g] = x, ![t] = x]
                     /\ regTasks' = [regTasks EXCEPT ![x] = Put(@, IdOf(parentRef', t), t)]
                     /\ digraph' = [digraph EXCEPT ![x] = AddNode(@, IdOf(parentRef', t))]
                     /\ last' = Call("apply", x, None, "ok", None)
             /\ UNCHANGED grpGroups
     /\ UNCHANGED <<univ, loop>>
     /\ UNCHANGED execution

\* ------------------------------------------------------------- get_checks_status
\* shut.checkers.CheckStatus: an integer enumeration, PASSED < WARNING < ERROR.
CheckStatus == {"PASSED", "WARNING", "ERROR"}

Level(s) == CASE s = "PASSED" -> 1 [] s = "WARNING" -> 2 [] s = "ERROR" -> 3

\* max(x.result.status for x in checks), checks non-empty.
MaxLevel(checks) ==
  CHOOSE s \in SeqSet(checks) : \A r \in SeqSet(checks) : Level(r) <= Level(s)

GetChecksStatusWarningIsError(checks, warnings_as_errors) ==
  IF checks = <<>>
  THEN [res |-> "ValueError", ret |-> None]
  ELSE LET max_level == MaxLevel(checks)
       IN [res |-> "ok",
           ret |-> IF max_level = "PASSED" THEN 0 ELSE 1]

\* get_checks_status(checks, warnings_as_errors); checks is the list of the
\* checks' result.status. max() of an empty list raises ValueError.
GetChecksStatusResult(checks, warnings_as_errors) ==
  IF checks = <<>>
  THEN [res |-> "ValueError", ret |-> None]
  ELSE LET max_level == MaxLevel(checks)
       IN [res |-> "ok",
           ret |-> IF max_level = "PASSED" THEN 0
                   ELSE IF max_level = "WARNING"
                   THEN (IF warnings_as_errors THEN 1 ELSE 0)
                   ELSE 1]

\* The lists of at most n statuses.
CheckLists(n) == UNION {[1..k -> CheckStatus] : k \in 0..n}

GetChecksStatus(checks, warnings_as_errors) ==
  /\ LET r == GetChecksStatusResult(checks, warnings_as_errors)
     IN last' = Call("get_checks_status", None,
                     [checks |-> checks, warnings_as_errors |-> warnings_as_errors],
                     r.res, r.ret)
  /\ UNCHANGED <<univ, loop, customData>>
  /\ UNCHANGED structure
  /\ UNCHANGED execution

\* ------------------------------------------------------------- checked_cast
\* Python classes and their direct base class.
Classes == {"object", "int", "bool", "float", "str", "list"}

Base(c) == IF c = "bool" THEN "int" ELSE "object"

\* issubclass(c, d)
IsSubclass(c, d) == c = d \/ Base(c) = d \/ d = "object"

\* The values of the tests, and True: each is an object of a class.
Vals ==
  {[repr |-> "0", class |-> "int"], [repr |-> "True", class |-> "bool"],
   [repr |-> "0.0", class |-> "float"], [repr |-> "'foo'", class |-> "str"],
   [repr |-> "[]", class |-> "list"], [repr |-> "['foo']", class |-> "list"]}

\* What the second argument can be. A class; a typing alias, which has
\* __origin__ (t.List, t.List[int], and t.Union[int, str] whose origin
\* typing.Union is no class); a tuple of those.
Type(c) == [kind |-> "type", class |-> c, args |-> <<>>, items |-> <<>>]
Alias(origin, args) == [kind |-> "alias", class |-> origin, args |-> args, items |-> <<>>]
TupleOf(items) == [kind |-> "tuple", class |-> "tuple", args |-> <<>>, items |-> items]

Singles ==
  {Type(c) : c \in Classes}
  \cup {Alias("list", <<>>), Alias("list", <<"int">>), Alias("Union", <<"int", "str">>)}

ExpectedTypes ==
  Singles \cup {TupleOf(items) : items \in UNION {[1..k -> Singles] : k \in 0..MaxTuple}}

\* isinstance(val, T) for T no tuple: a parametrized alias and typing.Union
\* raise TypeError, an unparametrized alias tests its origin.
IsInstanceSingle(val, T) ==
  IF T.kind = "alias" /\ (T.args # <<>> \/ T.class \notin Classes)
  THEN "TypeError"
  ELSE IF T.class \notin Classes THEN "TypeError"
  ELSE IF IsSubclass(val.class, T.class) THEN "True" ELSE "False"

\* isinstance(val, T): a tuple is tried item by item, the first match ends it.
RECURSIVE IsInstanceItems(_, _, _)
IsInstanceItems(val, items, i) ==
  IF i > Len(items) THEN "False"
  ELSE LET r == IsInstanceSingle(val, items[i])
       IN IF r = "False" THEN IsInstanceItems(val, items, i + 1) ELSE r

IsInstance(val, T) ==
  IF T.kind = "tuple" THEN IsInstanceItems(val, T.items, 1)
  ELSE IsInstanceSingle(val, T)

CheckedCastResultNoOrigin(val, expected_type) ==
  LET r == IsInstance(val, expected_type)
  IN IF r = "True" THEN [res |-> "ok", ret |-> val]
     ELSE [res |-> "TypeError", ret |-> None]

\* checked_cast(val, expected_type)
CheckedCastResult(val, expected_type) ==
  LET T == IF expected_type.kind = "alias"
           THEN [kind |-> "type", class |-> expected_type.class, args |-> <<>>, items |-> <<>>]
           ELSE expected_type
      r == IsInstance(val, T)
  IN IF r = "True" THEN [res |-> "ok", ret |-> val]
     ELSE [res |-> "TypeError", ret |-> None]

CheckedCast(val, expected_type) ==
  /\ LET r == CheckedCastResult(val, expected_type)
     IN last' = Call("checked_cast", None,
                     [val |-> val, expected_type |-> expected_type], r.res, r.ret)
  /\ UNCHANGED <<univ, loop, customData>>
  /\ UNCHANGED structure
  /\ UNCHANGED execution

\* ------------------------------------------------------------- do_bump
\* shut.model.version.Version: a release number and a spelling; two spellings
\* of a release ("1" and "1.0") compare equal and print differently.
Versions == [rel : 1..MaxRelease, form : {0, 1}]

Lower(v, w) == v.rel < w.rel

Digits == <<"1", "2", "3", "4", "5">>

Str(v) == Digits[v.rel] \o (IF v.form = 1 THEN ".0" ELSE "")

\* The options of the bump command that name the target version.
bump_args == {"version", "major", "minor", "patch", "post", "snapshot"}

\* Args, as far as do_bump reads it: provided is the set of the bump_args set
\* on the command line (at most two of them are tried).
ArgsSet ==
  [provided : {p \in SUBSET bump_args : Cardinality(p) <= 2},
   tag : BOOLEAN, push : BOOLEAN, dry : BOOLEAN,
   skip_update : BOOLEAN, force : BOOLEAN]

\* The project a bump runs on: the current version, the version that the
\* arguments lead to (args.version, bump_version(...) or
\* get_snapshot_version()), the version references in the files, the
\* unreleased changelog, the Git staging area, and the inter-dependencies
\* of a single-version monorepo.
Projects ==
  [current : Versions, target : Versions,
   refs : {"none", "one", "two in a file"},
   inconsistent : BOOLEAN,
   unreleased : {"missing", "empty", "entries"},
   staged : BOOLEAN,
   inter_deps : BOOLEAN]

\* The outcome of a call: how it ends, the exit status of the process, the
\* versions bump_to_version was called with (none or one), and what reached
\* the disk and Git.
Outcome(res, code, bumped, effects) ==
  [res |-> res, code |-> code, bumped |-> bumped, effects |-> effects]

BumpToVersionReleasing(args, prj) ==
  IF prj.refs = "two in a file"
  THEN [res |-> "UnboundLocalError", effects |-> <<>>]
  ELSE [res |-> "ok",
        effects |->
          (IF args.dry THEN <<>> ELSE <<"write version refs">>)
          \o (IF prj.unreleased = "missing" THEN <<>> ELSE <<"release changelog">>)
          \o (IF prj.inter_deps /\ ~args.dry THEN <<"write inter-dependencies">> ELSE <<>>)]

\* VersionBumpData.bump_to_version and its override in MonorepoBumpdata.
\* Line 109 reads ref before the loop of line 110 binds it.
BumpToVersion(args, prj) ==
  IF prj.refs = "two in a file"
  THEN [res |-> "UnboundLocalError", effects |-> <<>>]
  ELSE [res |-> "ok",
        effects |->
          (IF args.dry THEN <<>> ELSE <<"write version refs">>)
          \o (IF prj.unreleased = "missing" \/ args.dry THEN <<>> ELSE <<"release changelog">>)
          \o (IF prj.inter_deps /\ ~args.dry THEN <<"write inter-dependencies">> ELSE <<>>)]

LowerRefusedFlipped(args, allow_lower, new_version, current_version) ==
  Lower(current_version, new_version) /\ ~(args.force \/ allow_lower)

\* Line 244: the new version cannot be lower than the current one, unless forced.
LowerRefused(args, allow_lower, new_version, current_version) ==
  Lower(new_version, current_version) /\ ~(args.force \/ allow_lower)

\* Lines 259-284: commit, tag and push.
TagAndPush(args, prj) ==
  IF ~args.tag THEN [exits |-> FALSE, effects |-> <<>>]
  ELSE IF prj.staged THEN [exits |-> TRUE, effects |-> <<>>]
  ELSE [exits |-> FALSE,
        effects |->
          (IF ~args.dry THEN <<"git add", "git commit", "git tag">> ELSE <<>>)
          \o (IF ~args.dry /\ args.push THEN <<"git push">> ELSE <<>>)]

\* do_bump(args, data)
DoBumpResult(args, prj) ==
  IF args.push /\ ~args.tag THEN Outcome("SystemExit", 1, {}, <<>>)
  ELSE IF Cardinality(args.provided) > 1 THEN Outcome("SystemExit", 1, {}, <<>>)
  ELSE IF args.provided = {} /\ prj.unreleased # "entries" THEN Outcome("SystemExit", 1, {}, <<>>)
  ELSE IF prj.refs = "none" THEN Outcome("SystemExit", 1, {}, <<>>)
  ELSE IF prj.inconsistent /\ ~args.force THEN Outcome("SystemExit", 1, {}, <<>>)
  ELSE
    LET current_version == prj.current
        new_version == prj.target
        allow_lower == "snapshot" \in args.provided /\ Lower(new_version, current_version)
    IN IF LowerRefused(args, allow_lower, new_version, current_version)
       THEN Outcome("SystemExit", 1, {}, <<>>)
       ELSE IF Str(new_version) = Str(current_version) /\ ~args.force
       THEN Outcome("SystemExit", 0, {}, <<>>)
       ELSE
         LET bumped == BumpToVersion(args, prj)
             update == IF args.skip_update THEN <<>>
                       ELSE IF args.dry THEN <<"update(dry=True)">>
                       ELSE <<"update(dry=False)">>
             tagged == TagAndPush(args, prj)
         IN IF bumped.res # "ok"
            THEN Outcome(bumped.res, 1, {new_version}, bumped.effects)
            ELSE IF tagged.exits
            THEN Outcome("SystemExit", 1, {new_version}, bumped.effects \o update)
            ELSE Outcome("ok", 0, {new_version}, bumped.effects \o update \o tagged.effects)

\* The bump command: one call of do_bump in a process.
DoBump(args, prj) ==
  /\ LET r == DoBumpResult(args, prj)
     IN last' = Call("do_bump", None, [args |-> args, project |-> prj], r.res, r)
  /\ UNCHANGED <<univ, loop, customData>>
  /\ UNCHANGED structure
  /\ UNCHANGED execution

\* ------------------------------------------------------------- the caller's loop
\* for task in g.ordered_tasks(...): task.execute()      (src/test.py)
\* The list ordered_tasks returned is what the loop iterates over; an
\* exception of ordered_tasks ends the script before the loop.
EnterLoop ==
  loop' = IF last'.res = "ok"
          THEN [state |-> IF last'.ret = <<>> THEN "done" ELSE "running",
                plan |-> last'.ret, pos |-> 0]
          ELSE [state |-> "failed", plan |-> <<>>, pos |-> 0]

ForLoop(x) == OrderedAll(x) /\ EnterLoop /\ UNCHANGED customData

ForLoopSelected(x, value) == OrderedSelected(x, value) /\ EnterLoop /\ UNCHANGED customData

\* One iteration: execute() on the next task of the list. The sink of the
\* script prints and returns. An exception leaving execute() ends the loop.
ForLoopStep(outcome) ==
  /\ loop.state = "running"
  /\ Execute(loop.plan[loop.pos + 1], outcome, FALSE, FALSE)
  /\ loop' = [loop EXCEPT !.pos = @ + 1,
                          !.state = IF last'.res # "ok" THEN "aborted"
                                    ELSE IF loop.pos + 1 = Len(loop.plan) THEN "done"
                                    ELSE "running"]
  /\ UNCHANGED customData

\* ------------------------------------------------------------- specification
Build ==
  \/ \E x \in Graphs, g \in Groups : GraphAddGroup(x, g)
  \/ \E p \in Groups, g \in Groups : GroupAddGroup(p, g)
  \/ \E x \in Graphs, g \in Groups, p \in Groups \cup {None} : CreateGroup(x, g, p)
  \/ \E x \in Graphs, t \in Tasks : GraphAddTask(x, t)
  \/ \E p \in Groups, t \in Tasks : GroupAddTask(p, t)
  \/ \E t \in Tasks, ds \in DepLists : DependsOn(t, ds)
  \/ \E g \in Groups : Collect(g)

Query ==
  \/ \E x \in Graphs : \E value \in SelLists(x) : Select(x, value)
  \/ \E x \in Graphs : OrderedAll(x)
  \/ \E x \in Graphs : \E value \in SelLists(x) : OrderedSelected(x, value)

Run ==
  \E t \in Tasks, outcome \in Outcomes, beginRaises \in BOOLEAN, endRaises \in BOOLEAN :
    Execute(t, outcome, beginRaises, endRaises)

\* The objects of a run that studies ordering: three tasks at the root of one graph.
UnivOrder ==
  [tasks |-> {"T1", "T2", "T3"}, groups |-> {}, graphs |-> {"X"}, maxEdges |-> MaxEdges,
   nx |-> "generations"]

\* The objects of a run that studies registration: colliding names, two graphs.
UnivBuild ==
  [tasks |-> {"T1", "T5"}, groups |-> {"G1", "G3"}, graphs |-> {"X", "Y"},
   maxEdges |-> FewEdges, nx |-> "generations"]

\* The objects of a run that studies execution.
UnivRun ==
  [tasks |-> {"T1", "T2"}, groups |-> {"G1"}, graphs |-> {"X", "Y"}, maxEdges |-> FewEdges,
   nx |-> "generations"]

\* The objects of a run of the script: three tasks at the root of a graph with a sink.
UnivSched ==
  [tasks |-> {"T1", "T2", "T3"}, groups |-> {}, graphs |-> {"X"}, maxEdges |-> MaxEdges,
   nx |-> "generations"]

\* The objects of a run that studies ties: five tasks at the root of one graph.
UnivTies ==
  [tasks |-> {"T1", "T2", "T3", "T5", "T6"}, groups |-> {}, graphs |-> {"X"},
   maxEdges |-> 0, nx |-> "generations"]

\* Where the order of independent tasks is studied, the build has any release
\* of networkx.
AnyRelease(u) == {[u EXCEPT !.nx = v] : v \in Releases}

InitOrder == univ \in AnyRelease(UnivOrder) /\ Start
InitSched == univ \in AnyRelease(UnivSched) /\ Start
InitTies == univ \in AnyRelease(UnivTies) /\ Start

\* The objects of a run with plugins: what two calls of register_plugin
\* construct, and a task of the caller.
UnivPlugin ==
  [tasks |-> {"T1", "T6", "T7"}, groups |-> {"G5", "G6"}, graphs |-> {"X"},
   maxEdges |-> 0, nx |-> "generations"]

InitPlugin == univ = UnivPlugin /\ Start

\* The calls of the helper functions: no task graph is involved.
UnivUtil ==
  [tasks |-> {}, groups |-> {}, graphs |-> {}, maxEdges |-> 0, nx |-> "generations"]

InitUtil == univ = UnivUtil /\ Start
InitBuild == univ = UnivBuild /\ Start
Init == univ = UnivRun /\ Start

\* The caller has not inspected the graph yet: select and ordered_tasks come
\* after the build phase.
Building == last.op \notin {"select", "ordered_tasks()", "ordered_tasks(select)"}

\* A caller that lets the first exception end the program.
Unfailed == last.res = "ok"

\* A caller that lets a structural error end the program and goes on after an
\* execute() that raised.
Proceeds == last.op = "execute" \/ Unfailed

NextOrder ==
  \/ Building /\ Unfailed /\ Build /\ UNCHANGED <<loop, customData>>
  \/ Building /\ Unfailed /\ Query /\ UNCHANGED <<loop, customData>>

NextBuild ==
  \/ Building /\ Build /\ UNCHANGED <<loop, customData>>
  \/ Building /\ Query /\ UNCHANGED <<loop, customData>>

Next ==
  \/ Building /\ Proceeds /\ Build /\ UNCHANGED <<loop, customData>>
  \/ Building /\ Proceeds /\ Query /\ UNCHANGED <<loop, customData>>
  \/ Building /\ Proceeds /\ Run /\ UNCHANGED <<loop, customData>>

\* The script: build the graph, then loop over ordered_tasks(...).
NotLooping == loop.state = "idle"

NextSched ==
  \/ NotLooping /\ Unfailed /\ Build /\ UNCHANGED <<loop, customData>>
  \/ NotLooping /\ Unfailed /\ \E x \in Graphs : ForLoop(x)
  \/ NotLooping /\ Unfailed /\ \E x \in Graphs : \E value \in SelLists(x) : ForLoopSelected(x, value)
  \/ \E outcome \in Outcomes : ForLoopStep(outcome)

\* A graph of independent tasks, then one query.
NextTies ==
  \/ Building /\ Unfailed /\ (\E x \in Graphs, t \in Tasks : GraphAddTask(x, t)) /\ UNCHANGED <<loop, customData>>
  \/ Building /\ Unfailed /\ Query /\ UNCHANGED <<loop, customData>>

\* Plugins are applied while the graph is built.
NextPlugin ==
  \/ Building /\ Build /\ UNCHANGED <<loop, customData>>
  \/ Building /\ Query /\ UNCHANGED <<loop, customData>>
  \/ Building /\ \E x \in Graphs, m \in Plugins, g \in Groups, t \in Tasks : Apply(x, m, g, t)

SpecOrder == InitOrder /\ [][NextOrder]_vars
SpecPlugin == InitPlugin /\ [][NextPlugin]_vars

\* The process has not made its call yet.
Uncalled == last.op = "init"

NextUtil ==
  \/ Uncalled /\ \E checks \in CheckLists(MaxChecks), warnings_as_errors \in BOOLEAN :
                   GetChecksStatus(checks, warnings_as_errors)
  \/ Uncalled /\ \E val \in Vals, expected_type \in ExpectedTypes :
                   CheckedCast(val, expected_type)

SpecUtil == InitUtil /\ [][NextUtil]_vars

NextBump ==
  \/ Uncalled /\ \E args \in ArgsSet, prj \in Projects : DoBump(args, prj)

SpecBump == InitUtil /\ [][NextBump]_vars
SpecTies == InitTies /\ [][NextTies]_vars
SpecSched == InitSched /\ [][NextSched]_vars
SpecBuild == InitBuild /\ [][NextBuild]_vars
Spec == Init /\ [][Next]_vars

\* ============================================================= claims
OrderedOps == {"ordered_tasks()", "ordered_tasks(select)"}

\* The graph the last call was made on.
LastGraph == digraph[last.graph]

\* The positions of task t in a returned sequence.
Positions(seq, t) == {i \in DOMAIN seq : seq[i] = t}

\* The nodes from which n can be reached by one or more edges inside N.
RECURSIVE Ancestors(_, _, _, _)
Ancestors(G, N, found, k) ==
  LET more == found \cup {u \in N : \E v \in found : v \in SeqSet(G.adj[u])}
  IN IF k = 0 \/ more = found THEN found ELSE Ancestors(G, N, more, k - 1)

Before(G, N, n) == Ancestors(G, N, {u \in N : n \in SeqSet(G.adj[u])}, Cardinality(N))

\* The induced subgraph on N has a cycle (a self-dependency is one).
Cyclic(G, N) == \E n \in N : n \in Before(G, N, n)

\* The dependency closure of the node set S: S and all it reaches backward.
DependencyClosure(G, S) ==
  LET all == SeqSet(G.nodes)
  IN S \cup UNION {Before(G, all, n) : n \in S \cap all}

\* The tasks nested under group g at any depth.
RECURSIVE NestedTasks(_)
NestedTasks(g) ==
  Values(grpTasks[g]) \cup UNION {NestedTasks(h) : h \in Values(grpGroups[g])}

\* What a name selects: the tasks nested under the group of that id, or the
\* task of that id.
Selected(x, name) ==
  IF name \in DOMAIN regGroups[x] THEN NestedTasks(regGroups[x][name])
  ELSE {regTasks[x][name]}

ValidSelection(x, value) ==
  \A i \in DOMAIN value : value[i] \in (DOMAIN regGroups[x]) \cup (DOMAIN regTasks[x])

\* C1: whenever ordered_tasks, with or without a selection, returns a sequence,
\* every edge (a -> b) of the graph whose two tasks both appear in the sequence
\* has a strictly before b.
C1_EdgesRespected ==
  (last.op \in OrderedOps /\ last.res = "ok") =>
    \A e \in EdgeSet(LastGraph) :
      LET a == regTasks[last.graph][e[1]]
          b == regTasks[last.graph][e[2]]
      IN (Positions(last.ret, a) # {} /\ Positions(last.ret, b) # {}) =>
           \A i \in Positions(last.ret, a), j \in Positions(last.ret, b) : i < j

\* C1 witness: an order of three tasks was returned for a selection on a graph
\* with three dependency edges.
C1_Witness ==
  /\ last.op = "ordered_tasks(select)"
  /\ last.res = "ok"
  /\ Len(last.ret) = 3
  /\ Cardinality(EdgeSet(LastGraph)) = 3

\* C2: ordered_tasks on a graph whose considered edge set (the whole graph, or
\* the sub-graph induced by the dependency closure of a valid selection) has a
\* cycle fails with the cycle-detection error.
C2_CycleReported ==
  (/\ last.op \in OrderedOps
   /\ IF last.op = "ordered_tasks()" THEN Cyclic(LastGraph, SeqSet(LastGraph.nodes))
      ELSE /\ ValidSelection(last.graph, last.arg)
           /\ LET N == DependencyClosure(LastGraph,
                         {Id(t) : t \in UNION {Selected(last.graph, last.arg[i]) : i \in DOMAIN last.arg}})
              IN Cyclic(LastGraph, N))
  => last.res = "NetworkXUnfeasible"

\* C3: for an acyclic graph and a valid selection, ordered_tasks(selection)
\* returns exactly the tasks of the dependency closure of the selected tasks.
C3_ClosureReturned ==
  (/\ last.op = "ordered_tasks(select)"
   /\ ValidSelection(last.graph, last.arg)
   /\ ~Cyclic(LastGraph, SeqSet(LastGraph.nodes)))
  => /\ last.res = "ok"
     /\ LET S == UNION {Selected(last.graph, last.arg[i]) : i \in DOMAIN last.arg}
            C == DependencyClosure(LastGraph, {Id(t) : t \in S})
        IN SeqSet(last.ret) =
             S \cup {regTasks[last.graph][n] : n \in C \cap DOMAIN regTasks[last.graph]}

\* C4: select(name) returns exactly the Task objects nested at any depth under
\* the group of that id, and nothing that is not a Task; for a task id it
\* returns exactly that task.
C4_SelectNested ==
  (last.op = "select" /\ last.res = "ok" /\ Len(last.arg) = 1) =>
    last.ret = {TaskItem(t) : t \in Selected(last.graph, last.arg[1])}

\* C5: an add_task that fails on a colliding sibling name or on an identifier
\* already in the task registry leaves the group's child-task map, the task
\* registry, the dependency nodes and the task's parent and graph unchanged.
C5_FailedAddTaskChangesNothing ==
  [][(/\ last'.op \in {"TaskGroup.add_task", "TaskGraph.add_task"}
      /\ last'.res \in {"ValueError", "RuntimeError"})
     => UNCHANGED <<grpTasks, regTasks, digraph, parentRef, graphRef>>]_vars

\* The names of the objects attached at the root of graph x.
RootNames(x) == {Name(o) : o \in {q \in Tasks \cup Groups : graphRef[q] = x /\ parentRef[q] = None}}

\* C6: inserting a group, at any level including the root, under the name of
\* an existing sibling group or task is reported as an error, and no entry of
\* a registry or child map is ever replaced by a different object.
C6_NoSilentOverwrite ==
  [][/\ \A x \in Graphs :
          /\ \A k \in DOMAIN regGroups[x] : regGroups'[x][k] = regGroups[x][k]
          /\ \A k \in DOMAIN regTasks[x] : regTasks'[x][k] = regTasks[x][k]
     /\ \A p \in Groups :
          /\ \A k \in DOMAIN grpGroups[p] : grpGroups'[p][k] = grpGroups[p][k]
          /\ \A k \in DOMAIN grpTasks[p] : grpTasks'[p][k] = grpTasks[p][k]
     /\ \A x \in Graphs, g \in Groups :
          (GraphAddGroup(x, g) /\ graphRef[g] = None /\ Name(g) \in RootNames(x))
            => last'.res # "ok"]_vars

\* C7: every task and every group is registered under at most one key of at
\* most one graph and sits in at most one parent's child map.
C7_RegisteredOnce ==
  \A o \in Tasks \cup Groups :
    /\ Cardinality({xk \in UNION {{<<x, k>> : k \in DOMAIN regTasks[x]} : x \in Graphs} :
                      regTasks[xk[1]][xk[2]] = o}) <= 1
    /\ Cardinality({xk \in UNION {{<<x, k>> : k \in DOMAIN regGroups[x]} : x \in Graphs} :
                      regGroups[xk[1]][xk[2]] = o}) <= 1
    /\ Cardinality({p \in Groups : o \in Values(grpTasks[p]) \cup Values(grpGroups[p])}) <= 1

\* C8: execute() on a task that is not Pending raises at once, does not enter
\* the action and leaves status and recorded error as they were; Running is
\* entered from Pending only, and no action runs twice.
C8_ExecuteOnlyFromPending ==
  /\ [](\A t \in Tasks : invoked[t] <= 1)
  /\ [][\A t \in Tasks :
          /\ (last'.op = "execute" /\ last'.arg = t /\ status[t] # "PENDING")
               => /\ last'.res = "RuntimeError"
                  /\ status'[t] = status[t]
                  /\ error'[t] = error[t]
                  /\ invoked'[t] = invoked[t]
          /\ (status'[t] = "RUNNING" /\ status[t] # "RUNNING") => status[t] = "PENDING"]_vars

\* C8 witness: a task whose action has run was executed again, and refused.
C8_Witness ==
  /\ last.op = "execute"
  /\ last.res = "RuntimeError"
  /\ invoked[last.arg] = 1
  /\ status[last.arg] = "SUCCESS"

\* C9: after an execute() that entered the action, the status is Skipped if
\* the action signalled skip, Error if it raised anything else, and Success if
\* it returned.
C9_StatusFromOutcome ==
  (last.op = "execute" /\ last.ret # None) =>
    /\ last.ret = "skip" => status[last.arg] = "SKIPPED"
    /\ last.ret = "raise" => status[last.arg] = "ERROR"
    /\ last.ret = "return" => status[last.arg] = "SUCCESS"

\* C9 witness: an action signalled skip and its task ended Skipped.
C9_Witness ==
  /\ last.op = "execute"
  /\ last.ret = "skip"
  /\ status[last.arg] = "SKIPPED"

\* C10: an execute() whose action raised returns normally, with the task in
\* status Error and the failure recorded on it.
C10_FailureRecorded ==
  (last.op = "execute" /\ last.ret = "raise") =>
    /\ last.res = "ok"
    /\ status[last.arg] = "ERROR"
    /\ error[last.arg] # None

Terminal == {"SUCCESS", "SKIPPED", "ERROR"}

\* C11: when the sink receives task.begin for a task, the task's status is
\* still the one it had before execute() was called, Pending.
C11_BeginSeesPending ==
  \A i \in DOMAIN events : events[i].name = "task.begin" => events[i].status = "PENDING"

\* C12: every execute() that passed the Pending check emits task.end, after the
\* status has been finalized: the sink receives task.end last, sees a terminal
\* status, and the status does not change afterwards.
C12_EndAfterFinalStatus ==
  /\ \A i \in DOMAIN events :
        events[i].name = "task.end" =>
          /\ events[i].status \in Terminal
          /\ status[events[i].task] = events[i].status
  /\ (last.op = "execute" /\ last.res # "RuntimeError" /\ last.graph # None
        /\ HasListener(last.graph))
       => /\ events # <<>>
          /\ events[Len(events)].name = "task.end"
          /\ events[Len(events)].task = last.arg

\* The (name, task) pairs of the events the sink has received.
Trace == [i \in DOMAIN events |-> <<events[i].name, events[i].task>>]

\* C13: the sink receives the events of an execute() in the order they are
\* triggered, task.begin and then task.end of the executed task, appended to
\* what it has received before, so every task.end follows the task.begin of
\* the same task directly; without a sink nothing is received and the status
\* and recorded error end as they do with one.
C13_SinkSeesEventsInOrder ==
  /\ [](\A i \in DOMAIN events :
          events[i].name = "task.end" =>
            i > 1 /\ Trace[i - 1] = <<"task.begin", events[i].task>>)
  /\ [][\A t \in Tasks :
          (last'.op = "execute" /\ last'.arg = t /\ last'.ret # None) =>
            /\ IF HasListener(last'.graph)
               THEN /\ Len(events') = Len(events) + 2
                    /\ SubSeq(events', 1, Len(events)) = events
                    /\ SubSeq([i \in DOMAIN events' |-> <<events'[i].name, events'[i].task>>],
                              Len(events) + 1, Len(events) + 2)
                         = << <<"task.begin", t>>, <<"task.end", t>> >>
               ELSE events' = events
            /\ status'[t] = (CASE last'.ret = "return" -> "SUCCESS"
                               [] last'.ret = "skip" -> "SKIPPED"
                               [] last'.ret = "raise" -> "ERROR")
            /\ error'[t] = error[t]]_vars

\* C13 witness: two tasks were executed one after the other on a graph with a
\* sink, which received begin and end of the first and then of the second.
C13_Witness ==
  /\ Len(events) = 4
  /\ \E t \in Tasks, u \in Tasks :
        /\ t # u
        /\ Trace = << <<"task.begin", t>>, <<"task.end", t>>,
                      <<"task.begin", u>>, <<"task.end", u>> >>

\* C14: when the caller executes the tasks of ordered_tasks(...) one by one in
\* the returned order, every execute() returns control to the caller, and
\* when the loop has ended every task of the sequence is in a terminal status.
C14_LoopRunsToTheEnd ==
  /\ (loop.state # "idle" /\ last.op = "execute") => last.res = "ok"
  /\ loop.state \in {"done", "aborted"} =>
        \A i \in DOMAIN loop.plan : status[loop.plan[i]] \in Terminal

\* The dependencies of task t: the tasks registered under the sources of the
\* edges into t's node.
Dependencies(t) ==
  IF graphRef[t] = None THEN {}
  ELSE LET x == graphRef[t]
       IN {regTasks[x][e[1]] : e \in {f \in EdgeSet(digraph[x]) : f[2] = Id(t)}}

\* C15: execute() on a Pending task of a graph runs the action (unless the
\* sink raises on task.begin), whatever the statuses of the task's
\* dependencies, and sets the status from the action's outcome; the status of no other task changes, so no task becomes Skipped
\* or Error because another one ended in Error.
C15_NoFailurePropagation ==
  [][\A t \in Tasks :
       /\ (/\ last'.op = "execute" /\ last'.arg = t
           /\ status[t] = "PENDING" /\ graphRef[t] # None
           /\ ~(last'.res = "SinkError" /\ last'.ret = None))
          => /\ invoked'[t] = invoked[t] + 1
             /\ last'.ret = "return" => status'[t] = "SUCCESS"
             /\ last'.ret = "skip" => status'[t] = "SKIPPED"
             /\ last'.ret = "raise" => status'[t] = "ERROR"
       /\ status'[t] # status[t] => (last'.op = "execute" /\ last'.arg = t)]_vars

\* C15 witness: a task was executed and ended in Success although a task it
\* depends on had ended in Error.
C15_Witness ==
  /\ last.op = "execute"
  /\ status[last.arg] = "SUCCESS"
  /\ \E d \in Dependencies(last.arg) : d # last.arg /\ status[d] = "ERROR"

\* The names on the parent chain of object o, outermost group first.
RECURSIVE Chain(_)
Chain(o) == IF parentRef[o] = None THEN <<Name(o)>> ELSE Append(Chain(parentRef[o]), Name(o))

\* The names of a chain written with the separator ':' between them.
RECURSIVE Join(_)
Join(names) == IF Len(names) = 1 THEN names[1] ELSE names[1] \o ":" \o Join(Tail(names))

\* C16: the identifier of a task or group is its name when it has no parent
\* and otherwise the names of its whole parent chain and its own, separated by
\* ':'; a group added directly to a graph has no parent, and a task added to
\* group p has parent p and the identifier of p, ':' and its name.
C16_IdIsPathOfNames ==
  /\ [](\A o \in Tasks \cup Groups :
          /\ Id(o) = Join(Chain(o))
          /\ parentRef[o] = None => Id(o) = Name(o))
  /\ [][/\ \A x \in Graphs, g \in Groups :
            ((GraphAddGroup(x, g) \/ CreateGroup(x, g, None)) /\ last'.res = "ok")
              => parentRef'[g] = None /\ IdOf(parentRef', g) = Name(g)
        /\ \A p \in Groups, t \in Tasks :
            (GroupAddTask(p, t) /\ last'.res = "ok")
              => /\ parentRef'[t] = p
                 /\ IdOf(parentRef', t) = Id(p) \o ":" \o Name(t)]_vars

\* C16 witness: task 'a' is registered in group 'g' of root group 'g'; its
\* identifier is 'g:g:a'.
C16_Witness ==
  \E t \in Tasks :
    /\ graphRef[t] \in Graphs
    /\ parentRef[t] # None /\ parentRef[parentRef[t]] # None
    /\ Id(t) = "g:g:a"
    /\ Id(t) \in DOMAIN regTasks[graphRef[t]]

\* C17: every key of a graph's task registry and group registry is the
\* current identifier of the object stored under it: the identifier of an
\* attached task or group never changes.
C17_KeysStayIds ==
  \A x \in Graphs :
    /\ \A k \in DOMAIN regTasks[x] : Id(regTasks[x][k]) = k
    /\ \A k \in DOMAIN regGroups[x] : Id(regGroups[x][k]) = k

\* The groups attached to graph x.
AttachedGroups(x) == {p \in Groups : graphRef[p] = x}

\* C18: the registries of a graph agree with its group tree: every task in
\* the child map of an attached group is registered under its id, is a node
\* and refers to the graph; every child group of an attached group is
\* registered under its id; and every registered task or group is a root
\* object of the graph or a child of an attached group.
C18_RegistriesAgreeWithTree ==
  \A x \in Graphs :
    /\ \A p \in AttachedGroups(x) :
          /\ \A t \in Values(grpTasks[p]) :
                /\ Id(t) \in DOMAIN regTasks[x]
                /\ regTasks[x][Id(t)] = t
                /\ Id(t) \in SeqSet(digraph[x].nodes)
                /\ graphRef[t] = x
          /\ \A g \in Values(grpGroups[p]) :
                /\ Id(g) \in DOMAIN regGroups[x]
                /\ regGroups[x][Id(g)] = g
    /\ \A t \in Values(regTasks[x]) :
          /\ graphRef[t] = x
          /\ parentRef[t] # None =>
                parentRef[t] \in AttachedGroups(x) /\ t \in Values(grpTasks[parentRef[t]])
    /\ \A g \in Values(regGroups[x]) :
          /\ graphRef[g] = x
          /\ parentRef[g] # None =>
                parentRef[g] \in AttachedGroups(x) /\ g \in Values(grpGroups[parentRef[g]])

\* C19: add_task and add_group of a group that is attached to no graph fail
\* and change neither a child map nor a parent or graph reference.
C19_UnattachedGroupRefuses ==
  [][/\ \A p \in Groups, t \in Tasks :
          (GroupAddTask(p, t) /\ graphRef[p] = None)
            => last'.res = "RuntimeError" /\ UNCHANGED structure
     /\ \A p \in Groups, g \in Groups :
          (GroupAddGroup(p, g) /\ graphRef[p] = None)
            => last'.res = "RuntimeError" /\ UNCHANGED structure]_vars

\* C19 witness: add_task was refused by an unattached group while another
\* group of the same name is attached and has a child.
C19_Witness ==
  /\ last.op = "TaskGroup.add_task"
  /\ last.res = "RuntimeError"
  /\ last.graph = None
  /\ \E p \in Groups : graphRef[p] = None
  /\ \E q \in Groups : graphRef[q] # None /\ grpTasks[q] # EmptyDict

\* C20: t.depends_on(d) fails and leaves the edges as they are when t or d is
\* not a member of the graph: attached to no graph, or to another graph,
\* whatever its identifier.
C20_ForeignEndpointRefused ==
  [][\A t \in Tasks, d \in Tasks :
       (/\ DependsOn(t, <<d>>)
        /\ graphRef[d] = None \/ graphRef[t] = None \/ graphRef[d] # graphRef[t])
         => last'.res # "ok" /\ digraph' = digraph]_vars

SelectOps == {"select", "ordered_tasks(select)"}

\* C21: select, and ordered_tasks with a selection, fail with KeyError when a
\* name of the list is the identifier of no registered task or group; nothing
\* is returned, and the call leaves the graph as it was.
C21_UnknownNameNotFound ==
  /\ []((/\ last.op \in SelectOps
          /\ \E i \in DOMAIN last.arg : ~ValidSelection(last.graph, <<last.arg[i]>>))
         => last.res = "KeyError" /\ last.ret = None)
  /\ [][(last'.op \in SelectOps /\ last'.res = "KeyError")
         => UNCHANGED <<structure, execution>>]_vars

\* C21 witness: ordered_tasks was called with a registered name and an
\* unknown one, and failed with KeyError.
C21_Witness ==
  /\ last.op = "ordered_tasks(select)"
  /\ last.res = "KeyError"
  /\ Len(last.arg) = 2
  /\ \E i \in DOMAIN last.arg : ValidSelection(last.graph, <<last.arg[i]>>)

\* C22: on a graph without dependency edges ordered_tasks() returns the tasks
\* in the order in which they were added.
C22_InsertionOrder ==
  (last.op = "ordered_tasks()" /\ last.res = "ok" /\ EdgeSet(LastGraph) = {})
    => last.ret = [i \in DOMAIN LastGraph.nodes |-> regTasks[last.graph][LastGraph.nodes[i]]]

\* C23: ordered_tasks is deterministic: on a given graph, with a given
\* selection or none, the call has one possible outcome.
C23_OneOutcome ==
  \A x \in Graphs :
    /\ Cardinality(OrderedAllResults(x)) = 1
    /\ \A value \in SelLists(x) : Cardinality(OrderedSelectedResults(x, value)) = 1

\* C24: apply(graph, m) raises no error and records m in
\* custom_data['applied_plugins']; applied to a graph that has m recorded, or
\* that holds what register_plugin of m registers, it leaves tasks, groups
\* and edges as they are.
C24_ApplyIdempotent ==
  [][\A x \in Graphs, m \in Plugins :
       (last'.op = "apply" /\ last'.graph = x) =>
         /\ last'.res = "ok"
         /\ "applied_plugins" \in DOMAIN customData'[x]
         /\ m \in customData'[x]["applied_plugins"]
         /\ ("checks:test" \in DOMAIN regTasks[x] /\ "checks" \in DOMAIN regGroups[x])
              => UNCHANGED structure]_vars

\* The operations that change the structure of a graph.
BuildOps ==
  {"TaskGraph.add_group", "TaskGroup.add_group", "create_group",
   "TaskGraph.add_task", "TaskGroup.add_task", "depends_on"}

\* Execution of graph x has started: one of its tasks has left Pending.
Started(x) == \E t \in Tasks : graphRef[t] = x /\ status[t] # "PENDING"

\* C25: once some task of a graph has left Pending, add_task, add_group,
\* create_group and depends_on on that graph are rejected and leave tasks,
\* groups and edges unchanged.
C25_NoMutationAfterStart ==
  [][(/\ last'.op \in BuildOps
      /\ last'.graph \in Graphs
      /\ Started(last'.graph))
     => (last'.res # "ok" /\ UNCHANGED structure)]_vars

\* C26: for a non-empty list of checks get_checks_status returns 1 if some
\* check has status ERROR, 1 if none has but some has status WARNING and
\* warnings_as_errors is set, and 0 otherwise.
C26_WorstStatusDecides ==
  (last.op = "get_checks_status" /\ last.arg.checks # <<>>)
    => /\ last.res = "ok"
       /\ last.ret = IF "ERROR" \in SeqSet(last.arg.checks) THEN 1
                     ELSE IF "WARNING" \in SeqSet(last.arg.checks)
                             /\ last.arg.warnings_as_errors
                     THEN 1
                     ELSE 0

C26_Witness ==
  /\ last.op = "get_checks_status"
  /\ last.arg.checks = <<"PASSED", "WARNING", "PASSED">>
  /\ ~last.arg.warnings_as_errors
  /\ last.ret = 0

\* What a bump leaves outside the process.
Lasting ==
  {"write version refs", "write inter-dependencies", "release changelog",
   "update(dry=False)", "git add", "git commit", "git tag", "git push"}

\* C27: with --dry a bump writes no version reference, releases no
\* changelog and runs no git add, commit, tag or push, whatever the other
\* options are.
C27_DryChangesNothing ==
  (last.op = "do_bump" /\ last.arg.args.dry)
    => SeqSet(last.ret.effects) \cap Lasting = {}

C27_Witness ==
  /\ last.op = "do_bump"
  /\ last.arg.args.dry /\ last.arg.args.tag /\ last.arg.args.push
  /\ last.arg.project.unreleased = "entries"
  /\ last.arg.project.inter_deps
  /\ Lower(last.arg.project.current, last.arg.project.target)
  /\ last.ret.bumped # {}
  /\ last.res = "ok"

\* C28: bump_to_version is reached with a version lower than the current
\* one only with --force or in a snapshot bump; a target that prints like
\* the current version, without --force, ends the call with exit status 0
\* and nothing changed.
C28_LowerNeedsForce ==
  last.op = "do_bump" =>
    LET args == last.arg.args
        prj == last.arg.project
    IN /\ (\E v \in last.ret.bumped : Lower(v, prj.current))
            => (args.force \/ "snapshot" \in args.provided)
       /\ (Str(prj.target) = Str(prj.current) /\ ~args.force)
            => /\ last.ret.bumped = {}
               /\ last.ret.effects = <<>>
               /\ last.res = "SystemExit"
       /\ (Str(prj.target) = Str(prj.current) /\ ~args.force /\ last.ret.code # 0)
            => \/ args.push /\ ~args.tag
               \/ Cardinality(args.provided) # 1
               \/ prj.refs = "none"
               \/ prj.inconsistent

C28_Witness ==
  /\ last.op = "do_bump"
  /\ \E v \in last.ret.bumped : Lower(v, last.arg.project.current)
  /\ ~last.arg.args.force
  /\ last.ret.effects # <<>>
  /\ last.res = "ok"

\* The classes a type, a tuple of types or an alias with a class as origin
\* stands for; parameters of an alias do not count.
ClassesOf(T) ==
  IF T.kind = "tuple" THEN {T.items[i].class : i \in DOMAIN T.items} ELSE {T.class}

\* T is a type, a tuple of types, or a parametrized generic.
Castable(T) ==
  \/ T.kind = "type"
  \/ T.kind = "alias" /\ T.class \in Classes
  \/ T.kind = "tuple" /\ \A i \in DOMAIN T.items : T.items[i].kind = "type"

\* C29: checked_cast(val, T) returns val itself when val is an instance of T
\* (of the origin, for a generic) and raises TypeError otherwise.
C29_CastReturnsOrRaises ==
  (last.op = "checked_cast" /\ Castable(last.arg.expected_type)) =>
    IF \E c \in ClassesOf(last.arg.expected_type) : IsSubclass(last.arg.val.class, c)
    THEN last.res = "ok" /\ last.ret = last.arg.val
    ELSE last.res = "TypeError"

C29_Witness ==
  /\ last.op = "checked_cast"
  /\ last.arg.val.repr = "['foo']"
  /\ last.arg.expected_type = Alias("list", <<"int">>)
  /\ last.res = "ok"
  /\ last.ret = last.arg.val

\* C30: ordered_tasks(selection) with a valid selection ends, with a result
\* or an error, also when a cycle or a self-dependency is reachable backward
\* from a selected task.
C30_SelectionTerminates ==
  (last.op = "ordered_tasks(select)" /\ ValidSelection(last.graph, last.arg))
    => last.res # "diverges"

\* C31: between calls no task is in status Running: every execute() that has
\* ended, by returning or by raising, has left its task in another status.
C31_NoTaskLeftRunning ==
  \A t \in Tasks : status[t] # "RUNNING"

\* C32: a task has a recorded error exactly when its status is Error.
C32_ErrorIffStatusError ==
  \A t \in Tasks : (error[t] # None) <=> (status[t] = "ERROR")

\* The tasks that task t of graph x depends on, directly or through other
\* tasks, by the edges of the graph.
TransitiveDependencies(x, t) ==
  LET G == digraph[x]
      N == SeqSet(G.nodes)
      keys == {k \in DOMAIN regTasks[x] \cap N : regTasks[x][k] = t}
      deps == UNION {Before(G, N, k) : k \in keys}
  IN {regTasks[x][u] : u \in deps \cap DOMAIN regTasks[x]}

\* C33: when the loop executes the tasks of ordered_tasks(...) in the
\* returned order, every transitive dependency of a task is in a terminal
\* status when task.begin is triggered for the task, and at no time are two
\* tasks Running.
C33_DependenciesEndBeforeBegin ==
  /\ [](Cardinality({t \in Tasks : status[t] = "RUNNING"}) <= 1)
  /\ [][(loop.state = "running" /\ loop'.pos = loop.pos + 1
          /\ status[loop.plan[loop.pos + 1]] = "PENDING")
        => LET t == loop.plan[loop.pos + 1]
           IN /\ HasListener(graphRef[t]) =>
                   /\ Len(events') = Len(events) + 2
                   /\ events'[Len(events) + 1].name = "task.begin"
                   /\ events'[Len(events) + 1].task = t
              /\ \A d \in TransitiveDependencies(graphRef[t], t) : status[d] \in Terminal]_vars

C33_Witness ==
  /\ loop.state = "done"
  /\ Len(loop.plan) = 3
  /\ last.op = "execute" /\ last.res = "ok"
  /\ Cardinality(TransitiveDependencies(last.graph, last.arg)) = 2
  /\ Cardinality(Dependencies(last.arg)) = 1
  /\ \A i \in DOMAIN loop.plan : status[loop.plan[i]] \in Terminal
  /\ Len(events) = 6

\* No element stands twice in sequence seq.
NoRepeats(seq) == \A i, j \in DOMAIN seq : seq[i] = seq[j] => i = j

\* C34: on an acyclic graph ordered_tasks() returns every registered task
\* exactly once and nothing else; ordered_tasks(selection) returns no task
\* twice.
C34_PermutationOfRegistry ==
  /\ (last.op = "ordered_tasks()" /\ ~Cyclic(LastGraph, SeqSet(LastGraph.nodes)))
       => /\ last.res = "ok"
          /\ SeqSet(last.ret) = Values(regTasks[last.graph])
          /\ Len(last.ret) = Cardinality(DOMAIN regTasks[last.graph])
          /\ NoRepeats(last.ret)
  /\ (last.op = "ordered_tasks(select)" /\ last.res = "ok") => NoRepeats(last.ret)

C34_Witness ==
  /\ last.op = "ordered_tasks()"
  /\ last.res = "ok"
  /\ Len(last.ret) = 2
  /\ \E t \in SeqSet(last.ret) : parentRef[t] # None /\ parentRef[parentRef[t]] # None
  /\ EdgeSet(LastGraph) # {}

\* C35: an execute() that finds its task Pending triggers task.begin and
\* then task.end, each once and with the task as payload, and nothing in
\* between; an execute() that finds its task not Pending triggers no event.
\* Stated for the tasks of a graph, where there is a sink to trigger.
C35_OneBeginOneEnd ==
  [][\A t \in Tasks :
       (last'.op = "execute" /\ last'.arg = t /\ graphRef[t] # None) =>
         IF status[t] # "PENDING"
         THEN events' = events
         ELSE HasListener(graphRef[t]) =>
                   /\ Len(events') = Len(events) + 2
                   /\ \A i \in DOMAIN events : events'[i] = events[i]
                   /\ events'[Len(events) + 1].name = "task.begin"
                   /\ events'[Len(events) + 1].task = t
                   /\ events'[Len(events) + 2].name = "task.end"
                   /\ events'[Len(events) + 2].task = t]_vars

\* C36: select and ordered_tasks, returning or failing, leave the
\* registries, the groups' child maps, the edges, custom_data and every
\* task's status and recorded error as they are and trigger no event.
C36_QueriesReadOnly ==
  [][(last'.op \in OrderedOps \cup SelectOps)
       => /\ UNCHANGED <<regTasks, regGroups, grpTasks, grpGroups, digraph>>
          /\ UNCHANGED <<graphRef, parentRef, customData>>
          /\ UNCHANGED <<status, error, events>>]_vars

C36_Witness ==
  /\ last.op = "ordered_tasks(select)"
  /\ last.res = "ok"
  /\ Len(last.ret) = 1
  /\ Cardinality(DOMAIN regTasks[last.graph]) = 2
  /\ \E t \in Tasks : graphRef[t] = last.graph /\ status[t] \in Terminal
  /\ events # <<>>

\* C37: execute() on task t changes the status and the recorded error of no
\* other task, and neither the registries nor the edges; add_task,
\* add_group, create_group and depends_on change the status of no task.
C37_ExecuteTouchesOneTask ==
  [][/\ last'.op = "execute" =>
          /\ \A u \in Tasks \ {last'.arg} : status'[u] = status[u] /\ error'[u] = error[u]
          /\ UNCHANGED <<regTasks, regGroups, digraph>>
     /\ last'.op \in BuildOps => UNCHANGED <<status, error>>]_vars

C37_Witness ==
  /\ last.op = "execute"
  /\ last.ret = "raise"
  /\ status[last.arg] = "ERROR"
  /\ \E u \in Tasks \ {last.arg} :
        /\ graphRef[u] = last.graph
        /\ <<Id(last.arg), Id(u)>> \in EdgeSet(LastGraph)
        /\ status[u] = "PENDING"

====
